---- MODULE Spec2Model ----
(***************************************************************************)
(* Model of src/code/bert.py: the metric function accuracy() and the       *)
(* epoch loop of main() (training over folds 0..2, evaluation over fold 3, *)
(* best-checkpoint decision).                                              *)
(*                                                                         *)
(* Floating-point values are modelled as exact non-negative rationals      *)
(* <<numerator, denominator>> in lowest terms; <<0,0>> is NaN and <<1,0>>  *)
(* is +inf, the two values numpy's true division produces for a zero       *)
(* denominator (0/0 and n/0).  Rounding is not modelled.                   *)
(*                                                                         *)
(* The classifier's forward pass is an external black box: its logits and  *)
(* its loss are inputs chosen from small sets at every call.               *)
(***************************************************************************)
EXTENDS Integers, Sequences, FiniteSets, TLC

\* ------------------------------------------------------------------ bounds
MaxN         == 3   \* largest number of examples in a fold
MaxBatchSize == 2   \* largest train_batch_size
MaxEpochs    == 2   \* num_train_epochs of the full loop
MaxLoss      == 2   \* losses returned by the model are 1..MaxLoss
MaxClasses   == 3   \* widest score matrix given to accuracy() on its own
MaxB         == 2   \* longest batch given to accuracy() on its own
ScenarioEpochs == 5 \* epochs of the checkpoint-decision scenario
MaxGradNorm  == 2   \* norms of a batch's gradient are 1..MaxGradNorm

\* ------------------------------------------------- floats as exact rationals
NaN  == <<0, 0>>
Inf  == <<1, 0>>
Zero == <<0, 1>>
One  == <<1, 1>>

RECURSIVE GCD(_, _)
GCD(a, b) == IF b = 0 THEN a ELSE GCD(b, a % b)

\* n / d of two non-negative integers, numpy semantics for d = 0
TrueDivideCoerceZero(n, d) ==
    IF d = 0 THEN Zero
    ELSE LET g == GCD(n, d) IN <<n \div g, d \div g>>

TrueDivide(n, d) ==
    IF d = 0 THEN (IF n = 0 THEN NaN ELSE Inf)
    ELSE LET g == GCD(n, d) IN <<n \div g, d \div g>>

IsFinite(x) == x[2] # 0

\* x + y on floats: NaN is absorbing, then inf
FAdd(x, y) ==
    IF x = NaN \/ y = NaN THEN NaN
    ELSE IF x = Inf \/ y = Inf THEN Inf
    ELSE TrueDivide(x[1] * y[2] + y[1] * x[2], x[2] * y[2])

\* x / k for a float x and a positive integer k
FDivInt(x, k) ==
    IF ~IsFinite(x) THEN x ELSE TrueDivide(x[1], x[2] * k)

\* x >= y on floats: every comparison with NaN is false
FGeq(x, y) ==
    IF x = NaN \/ y = NaN THEN FALSE
    ELSE IF x = Inf THEN TRUE
    ELSE IF y = Inf THEN FALSE
    ELSE x[1] * y[2] >= y[1] * x[2]

FGt(x, y) == FGeq(x, y) /\ x # y

\* ------------------------------------------------------------- accuracy()
RECURSIVE SumSeq(_)
SumSeq(s) == IF s = <<>> THEN 0 ELSE Head(s) + SumSeq(Tail(s))

\* np.argmax over one row of scores (classes are 0-based, row index c+1):
\* the first index holding the maximum
RECURSIVE ArgMaxFrom(_, _, _)
ArgMaxFrom(row, i, best) ==
    IF i > Len(row) THEN best - 1
    ELSE ArgMaxFrom(row, i + 1, IF row[i] > row[best] THEN i ELSE best)

RECURSIVE ArgMaxLastFrom(_, _, _)
ArgMaxLastFrom(row, i, best) ==
    IF i > Len(row) THEN best - 1
    ELSE ArgMaxLastFrom(row, i + 1, IF row[i] >= row[best] THEN i ELSE best)

ArgMaxLast(row) == ArgMaxLastFrom(row, 2, 1)

ArgMax(row) == ArgMaxFrom(row, 2, 1)

\* outputs = np.argmax(logits, axis=1)
Outputs(logits) == [i \in 1..Len(logits) |-> ArgMax(logits[i])]

\* sum1: positions where outputs[i]==labels[i] and labels[i]==1
sum1AnyMatch(outputs, labels) ==
    SumSeq([i \in 1..Len(outputs) |-> IF outputs[i] = labels[i] THEN 1 ELSE 0])

sum1(outputs, labels) ==
    SumSeq([i \in 1..Len(outputs) |->
              IF outputs[i] = labels[i] /\ labels[i] = 1 THEN 1 ELSE 0])

\* sum(outputs == labels)
SumEqualPositive(outputs, labels) == sum1(outputs, labels)

SumEqual(outputs, labels) ==
    SumSeq([i \in 1..Len(outputs) |-> IF outputs[i] = labels[i] THEN 1 ELSE 0])

\* accuracy(logits, labels): <<accuracy, precision, recall>>
accuracy(logits, labels) ==
    LET outputs == Outputs(logits)
        s1      == sum1(outputs, labels)
    IN  << TrueDivide(SumEqual(outputs, labels), Len(outputs)),
           TrueDivide(s1, SumSeq(outputs)),
           TrueDivide(s1, SumSeq(labels)) >>


\* ------------------------------------------------------------------ state
VARIABLES
    num_train_epochs,  \* args.num_train_epochs
    batch_size,        \* args.train_batch_size, the batch size of all 4 loaders
    sizes,             \* sizes[f]: number of examples of datasets[f], f in 0..3
    labels3,           \* the labels of datasets[3], in dataset order
    eval_batch_size,   \* args.eval_batch_size
    n_gpu,             \* torch.cuda.device_count()
    pc,                \* position of main() in the epoch loop
    ie,                \* epoch index of the for loop
    fold,              \* index of the training loader being iterated
    batch,             \* index of the next batch of the current loader
    train_loss,        \* accumulator of line 107/117
    pbar,              \* number of pbar.update(1) calls of this epoch
    params,            \* ModelState: number of optimizer.step() applied to it
    scheduler,         \* number of scheduler.step() calls
    eval_loss, eval_accuracy, eval_precision, eval_recall, eval_examples,
    result,            \* the dict logged at lines 154-162
    best_accuracy,
    checkpoint,        \* content of model/model_best.pt
    steps_log,         \* history: the optimization steps of this epoch
    loss_sum,          \* history: sum of the losses of those steps
    eval_log,          \* history: the batches evaluated in this epoch
    eval_loss_sum,     \* history: sum of the losses of those batches
    trained,           \* history: ModelState when model.eval() was called
    history,           \* history: per finished epoch, accuracy and ModelState
    saves,             \* history: the epochs (1-based) that called torch.save
    grad,              \* norm of the accumulated gradients of the parameters
    applied,           \* history: the gradient norms optimizer.step() applied
    fwd_grads,         \* history: the gradient norms found by a training forward
    last_ops,          \* history: the operations of the latest step
    logged,            \* history: number of results logged
    n_saves,           \* history: number of torch.save calls
    m_logits, m_labels, m_metrics,  \* a call of accuracy() on its own
    passes, cur_pass,  \* the loaders iterated on their own
    fwd_memo, first_result  \* the evaluation run twice on its own

vars == << num_train_epochs, batch_size, sizes, labels3, pc, ie, fold, batch,
           train_loss, pbar, params, scheduler,
           eval_loss, eval_accuracy, eval_precision, eval_recall, eval_examples,
           result, best_accuracy, checkpoint,
           steps_log, loss_sum, eval_log, eval_loss_sum, trained, history,
           saves, m_logits, m_labels, m_metrics, eval_batch_size, n_gpu,
           grad, applied, fwd_grads, last_ops, logged, n_saves,
           passes, cur_pass, fwd_memo, first_result >>

dataVars   == << num_train_epochs, batch_size, sizes, labels3,
                 eval_batch_size, n_gpu >>
stepVars   == << grad, applied, fwd_grads, last_ops >>
harnessVars == << passes, cur_pass, fwd_memo, first_result >>
evalVars   == << eval_loss, eval_accuracy, eval_precision, eval_recall,
                 eval_examples >>
metricVars == << m_logits, m_labels, m_metrics >>

NoCheckpoint == -1
NoResult     == << >>
NoMetrics    == << >>

\* ------------------------------------------------------------ data loaders
\* len(DataLoader) with drop_last=False
FloorDiv(n, k) == n \div k
CeilDiv(n, k)  == (n + k - 1) \div k

\* len(data_loaders[f])
LoaderLen(f) == CeilDiv(sizes[f], batch_size)

\* SequentialSampler: batch b (0-based) holds examples First..Last
BatchFirst(b)    == b * batch_size + 1
BatchLast(f, b)  == IF (b + 1) * batch_size < sizes[f]
                    THEN (b + 1) * batch_size ELSE sizes[f]

\* eval_loader = data_loaders[3]
EvalFold      == 3

\* data_loaders[:3]
TrainFoldsAll == EvalFold + 1
TrainFolds    == 3

\* step_per_epoch = len(data_loaders[0])*3
step_per_epoch == LoaderLen(0) * 3

\* line 95: the number of training steps given to the scheduler
total_steps == step_per_epoch * num_train_epochs

\* the model's outputs
Losses     == 1..MaxLoss
Scores     == {0, 1}   \* two score levels: every arg-max outcome, ties too
Rows(c)    == [1..c -> Scores]
Logits(b, c) == [1..b -> Rows(c)]
NumLabels  == 2     \* BertConfig default of bert-base-chinese

\* ------------------------------------------------------------------- Init
\* The runs that are explored: several epochs over four single-example
\* datasets, or one epoch in which either the training datasets or the
\* evaluation dataset take every size up to MaxN.
Runs ==
    { r \in (1..MaxEpochs) \X [0..3 -> 1..MaxN] :
        \/ \A f \in 0..3 : r[2][f] = 1
        \/ /\ r[1] = 1
           /\ \/ r[2][EvalFold] = 1
              \/ \A f \in 0..2 : r[2][f] = 1 }

InitMetricIdle ==
    /\ m_logits = << >>
    /\ m_labels = << >>
    /\ m_metrics = NoMetrics

\* no batch produced yet by any of the four loaders
NoPass == [f \in 1..4 |-> << >>]

InitHarnessIdle ==
    /\ passes = << >>
    /\ cur_pass = NoPass
    /\ fwd_memo = << >>
    /\ first_result = NoResult

InitLoop ==
    /\ ie = 0
    /\ fold = 0
    /\ batch = 0
    /\ train_loss = Zero
    /\ pbar = 0
    /\ params = 0
    /\ scheduler = 0
    /\ eval_loss = Zero
    /\ eval_accuracy = Zero
    /\ eval_precision = Zero
    /\ eval_recall = Zero
    /\ eval_examples = 0
    /\ result = NoResult
    /\ best_accuracy = Zero
    /\ checkpoint = NoCheckpoint
    /\ steps_log = << >>
    /\ loss_sum = 0
    /\ eval_log = << >>
    /\ eval_loss_sum = 0
    /\ trained = 0
    /\ history = << >>
    /\ saves = {}
    /\ grad = 0
    /\ applied = {}
    /\ fwd_grads = {}
    /\ last_ops = << >>
    /\ logged = 0
    /\ n_saves = 0

\* torch.cuda.device_count(): one device, or several
GpuCounts == {1, 2}

Init ==
    /\ \E r \in Runs :
         /\ num_train_epochs = r[1]
         /\ sizes = r[2]
    /\ batch_size \in 1..MaxBatchSize
    /\ eval_batch_size \in IF sizes[EvalFold] = 2 THEN 1..MaxBatchSize
                                               ELSE {batch_size}
    /\ n_gpu \in IF \A f \in 0..3 : sizes[f] = 1 THEN GpuCounts ELSE {1}
    /\ labels3 \in [1..sizes[EvalFold] -> 0..(NumLabels - 1)]
    /\ pc = "EpochStart"
    /\ InitLoop
    /\ InitMetricIdle
    /\ InitHarnessIdle

\* ---------------------------------------------------------------- actions
\* lines 105-108: loop head, model.train(), train_loss = 0, new progress bar
ResetTrainLoss == Zero

\* line 105: range(int(args.num_train_epochs)) has no value left for ie
RangeExhaustedEarly == ie >= num_train_epochs - 1
RangeExhausted      == ie >= num_train_epochs

StartEpoch ==
    /\ pc = "EpochStart"
    /\ ~RangeExhausted
    /\ pc' = "Training"
    /\ train_loss' = ResetTrainLoss
    /\ pbar' = 0
    /\ fold' = 0
    /\ batch' = 0
    /\ steps_log' = << >>
    /\ loss_sum' = 0
    /\ eval_log' = << >>
    /\ eval_loss_sum' = 0
    /\ UNCHANGED << dataVars, ie, params, scheduler, evalVars, result,
                    best_accuracy, checkpoint, trained, history, saves,
                    metricVars,
                    stepVars, logged, n_saves, harnessVars >>

\* line 120: the max_norm given to clip_grad_norm_
max_norm == 1

\* line 77 wraps the model in DataParallel: with more than one GPU the
\* forward pass returns one loss per replica, otherwise a scalar
ForwardShape == IF n_gpu > 1 THEN "vector" ELSE "scalar"

\* lines 114-123, the operations of one optimization step in program order
StepOpsClipAfterStep ==
    << "forward", "reduce", "backward", "optimizer", "clip", "scheduler",
       "zero_grad" >>
StepOps ==
    << "forward", "reduce", "backward", "clip", "optimizer", "scheduler",
       "zero_grad" >>

\* lines 134-137, the operations on one evaluation batch: a forward pass
\* under torch.no_grad()
EvalOpsStepping == << "forward", "optimizer", "scheduler" >>
EvalOps         == << "forward" >>

\* the effect of one operation; g is the norm of this batch's gradient
RunOp(st, op, g) ==
    LET t == [st EXCEPT !.done = Append(@, op)] IN
    CASE op = "forward"   -> [t EXCEPT !.shape = ForwardShape,
                                       !.fwd = @ \cup {st.grad}]
      [] op = "reduce"    -> [t EXCEPT !.shape = IF n_gpu > 1 THEN "scalar"
                                                 ELSE @]
      [] op = "backward"  -> [t EXCEPT !.grad = IF st.shape = "scalar"
                                                 THEN @ + g ELSE -1]
      [] op = "clip"      -> [t EXCEPT !.grad = IF @ > max_norm
                                                 THEN max_norm ELSE @]
      [] op = "optimizer" -> [t EXCEPT !.params = @ + 1,
                                       !.applied = @ \cup {st.grad}]
      [] op = "scheduler" -> [t EXCEPT !.scheduler = @ + 1]
      [] op = "zero_grad" -> [t EXCEPT !.grad = 0]

RECURSIVE RunOps(_, _, _)
RunOps(st, ops, g) ==
    IF ops = << >> THEN st
    ELSE RunOps(RunOp(st, Head(ops), g), Tail(ops), g)

\* lines 110-125: one optimization step on the next batch of a training fold
TrainStep ==
    /\ pc = "Training"
    /\ fold < TrainFolds
    /\ \E loss \in Losses :
         /\ train_loss' = FAdd(train_loss, <<loss, 1>>)
         /\ loss_sum' = loss_sum + loss
    /\ steps_log' = Append(steps_log, <<fold, batch>>)
    /\ \E g \in 1..MaxGradNorm :
         LET st == RunOps([grad |-> grad, params |-> params,
                           scheduler |-> scheduler, applied |-> applied,
                           fwd |-> fwd_grads, shape |-> "none",
                           done |-> << >>], StepOps, g)
         IN  /\ grad' = st.grad
             /\ params' = st.params
             /\ scheduler' = st.scheduler
             /\ applied' = st.applied
             /\ fwd_grads' = st.fwd
             /\ last_ops' = st.done
    /\ pbar' = pbar + 1
    /\ IF batch + 1 < LoaderLen(fold)
         THEN /\ batch' = batch + 1
              /\ fold' = fold
         ELSE /\ batch' = 0
              /\ fold' = fold + 1
    /\ UNCHANGED << dataVars, pc, ie, evalVars, result, best_accuracy,
                    checkpoint, eval_log, eval_loss_sum, trained, history,
                    saves, metricVars, logged, n_saves, harnessVars >>

\* line 128: eval_accuracy = 0
EvalAccuracyCarried == eval_accuracy
EvalAccuracyInit    == Zero

\* lines 127-129: the training loops are exhausted; model.eval(), zero the
\* evaluation accumulators
BeginEval ==
    /\ pc = "Training"
    /\ fold >= TrainFolds
    /\ pc' = "Evaluating"
    /\ eval_loss' = Zero
    /\ eval_accuracy' = EvalAccuracyInit
    /\ eval_precision' = Zero
    /\ eval_recall' = Zero
    /\ eval_examples' = 0
    /\ batch' = 0
    /\ trained' = params
    /\ UNCHANGED << dataVars, ie, fold, train_loss, pbar, params, scheduler,
                    result, best_accuracy, checkpoint, steps_log, loss_sum,
                    eval_log, eval_loss_sum, history, saves, metricVars,
                    stepVars, logged, n_saves, harnessVars >>

\* the predicted class of a row of scores, stated without ArgMax
PredClass(row) ==
    CHOOSE c \in 0..(Len(row) - 1) :
        /\ \A k \in 1..Len(row) : row[k] <= row[c + 1]
        /\ \A k \in 1..c : row[k] < row[c + 1]

\* lines 130-147: one batch of the evaluation loader, the model returning
\* `logits` and `loss` for it
EvalBatchOn(logits, loss) ==
    /\ pc = "Evaluating"
    /\ batch < LoaderLen(EvalFold)
    /\ LET lo  == BatchFirst(batch)
           hi  == BatchLast(EvalFold, batch)
           label_ids == [i \in 1..(hi - lo + 1) |-> labels3[lo + i - 1]]
           m   == accuracy(logits, label_ids)
       IN   /\ Len(logits) = hi - lo + 1
            /\ eval_loss' = FAdd(eval_loss, <<loss, 1>>)
            /\ eval_accuracy' = FAdd(eval_accuracy, m[1])
            /\ eval_precision' = FAdd(eval_precision, m[2])
            /\ eval_recall' = FAdd(eval_recall, m[3])
            /\ eval_examples' = eval_examples + Len(logits)
            /\ eval_loss_sum' = eval_loss_sum + loss
            /\ eval_log' = Append(eval_log,
                 [batch |-> batch, size |-> Len(logits), first |-> lo,
                  acc |-> m[1], prec |-> m[2], rec |-> m[3],
                  hits  |-> Cardinality({i \in 1..Len(logits) :
                               PredClass(logits[i]) = label_ids[i]}),
                  npred |-> Cardinality({i \in 1..Len(logits) :
                               PredClass(logits[i]) = 1}),
                  ntrue |-> Cardinality({i \in 1..Len(logits) :
                               label_ids[i] = 1})])
    /\ LET st == RunOps([grad |-> grad, params |-> params,
                          scheduler |-> scheduler, applied |-> applied,
                          fwd |-> fwd_grads, shape |-> "none",
                          done |-> << >>], EvalOps, 0)
       IN  /\ grad' = st.grad
           /\ params' = st.params
           /\ scheduler' = st.scheduler
           /\ applied' = st.applied
    /\ batch' = batch + 1
    /\ UNCHANGED << dataVars, pc, ie, fold, train_loss, pbar, result,
                    best_accuracy, checkpoint, steps_log, loss_sum, trained,
                    history, saves, metricVars, fwd_grads, last_ops, logged,
                    n_saves, passes, cur_pass, first_result >>

\* the outputs the model may return for a batch of b examples
Outcomes(b) == Logits(b, NumLabels) \X Losses

EvalBatch ==
    /\ \E o \in Outcomes(BatchLast(EvalFold, batch) - BatchFirst(batch) + 1) :
         EvalBatchOn(o[1], o[2])
    /\ UNCHANGED fwd_memo

\* len(eval_loader), the divisor of lines 149-152
len_eval_examples == eval_examples
len_eval_loader   == LoaderLen(EvalFold)

\* lines 149-162: average the accumulators, build and log the result
EvalFinish ==
    /\ pc = "Evaluating"
    /\ batch >= LoaderLen(EvalFold)
    /\ eval_loss' = FDivInt(eval_loss, len_eval_loader)
    /\ eval_accuracy' = FDivInt(eval_accuracy, len_eval_loader)
    /\ eval_precision' = FDivInt(eval_precision, len_eval_loader)
    /\ eval_recall' = FDivInt(eval_recall, len_eval_loader)
    /\ result' = [eval_loss |-> eval_loss', eval_accuracy |-> eval_accuracy',
                  eval_precision |-> eval_precision',
                  eval_recall |-> eval_recall',
                  train_loss |-> FDivInt(train_loss, step_per_epoch)]
    /\ logged' = logged + 1
    /\ pc' = "CheckpointDecision"
    /\ UNCHANGED << dataVars, ie, fold, batch, train_loss, pbar, params,
                    scheduler, eval_examples, best_accuracy, checkpoint,
                    steps_log, loss_sum, eval_log, eval_loss_sum, trained,
                    history, saves, metricVars,
                    stepVars, n_saves, harnessVars >>

\* line 164: if eval_accuracy >= best_accuracy
SaveDecisionStrict(acc, best) == FGt(acc, best)
SaveDecisionAlways(acc, best) == TRUE
SaveDecision(acc, best)       == FGeq(acc, best)

\* lines 164-166, then the end of the loop body.  The logged dict is not
\* read after this point and is dropped.
CheckpointDecision ==
    /\ pc = "CheckpointDecision"
    /\ IF SaveDecision(eval_accuracy, best_accuracy)
         THEN /\ checkpoint' = params
              /\ best_accuracy' = eval_accuracy
              /\ saves' = saves \cup {ie + 1}
              /\ n_saves' = n_saves + 1
         ELSE UNCHANGED << checkpoint, best_accuracy, saves, n_saves >>
    /\ history' = Append(history, [acc |-> eval_accuracy, params |-> trained])
    /\ result' = NoResult
    /\ ie' = ie + 1
    /\ pc' = "EpochStart"
    /\ UNCHANGED << dataVars, fold, batch, train_loss, pbar, params,
                    scheduler, evalVars, steps_log, loss_sum, eval_log,
                    eval_loss_sum, trained, metricVars,
                    stepVars, logged, harnessVars >>

\* line 105: the range is exhausted, main() returns
Finish ==
    /\ pc = "EpochStart"
    /\ RangeExhausted
    /\ pc' = "Done"
    /\ UNCHANGED << dataVars, ie, fold, batch, train_loss, pbar, params,
                    scheduler, evalVars, result, best_accuracy, checkpoint,
                    steps_log, loss_sum, eval_log, eval_loss_sum, trained,
                    history, saves, metricVars,
                    stepVars, logged, n_saves, harnessVars >>

Next ==
    \/ StartEpoch
    \/ TrainStep
    \/ BeginEval
    \/ EvalBatch
    \/ EvalFinish
    \/ CheckpointDecision
    \/ Finish

Spec == Init /\ [][Next]_vars

\* The runs explored for termination: up to MaxEpochs epochs, a first
\* training dataset of every size up to MaxN, the other datasets of one
\* example.
InitLive ==
    /\ num_train_epochs \in 1..MaxEpochs
    /\ sizes \in {z \in [0..3 -> 1..MaxN] : \A f \in 1..3 : z[f] = 1}
    /\ batch_size \in 1..MaxBatchSize
    /\ eval_batch_size = batch_size
    /\ n_gpu = 1
    /\ labels3 \in [1..sizes[EvalFold] -> 0..(NumLabels - 1)]
    /\ pc = "EpochStart"
    /\ InitLoop
    /\ InitMetricIdle
    /\ InitHarnessIdle

\* main() is one sequential thread: whenever a statement can be executed it
\* is executed
SpecLive == InitLive /\ [][Next]_vars /\ WF_vars(Next)

\* ------------------------------------------- accuracy() called on its own
\* Every score matrix of 1..MaxB rows and 2..MaxClasses classes with every
\* label vector of the same length over the same classes.
InitMetric ==
    /\ \E b \in 1..MaxB, c \in 2..MaxClasses :
         /\ m_logits \in Logits(b, c)
         /\ m_labels \in [1..b -> 0..(c - 1)]
    /\ m_metrics = NoMetrics
    /\ pc = "Call"
    /\ num_train_epochs = 0
    /\ batch_size = 1
    /\ eval_batch_size = 1
    /\ n_gpu = 1
    /\ InitHarnessIdle
    /\ sizes = [f \in 0..3 |-> 1]
    /\ labels3 = <<0>>
    /\ InitLoop

\* lines 18-21
CallAccuracy ==
    /\ pc = "Call"
    /\ m_metrics' = accuracy(m_logits, m_labels)
    /\ pc' = "Returned"
    /\ UNCHANGED << dataVars, ie, fold, batch, train_loss, pbar, params,
                    scheduler, evalVars, result, best_accuracy, checkpoint,
                    steps_log, loss_sum, eval_log, eval_loss_sum, trained,
                    history, saves, m_logits, m_labels,
                    stepVars, logged, n_saves, harnessVars >>

NextMetric == CallAccuracy

SpecMetric == InitMetric /\ [][NextMetric]_vars

\* ------------------------------------- the checkpoint decision on its own
\* The epoch loop with the training and the evaluation of an epoch reduced
\* to their outcome: the parameters have moved and the evaluation produced
\* an accuracy, any of ScenarioAccs.
ScenarioAccs == { <<1, 2>>, <<11, 20>>, <<3, 5>>, <<7, 10>> }

InitDecision ==
    /\ num_train_epochs = ScenarioEpochs
    /\ batch_size = 1
    /\ eval_batch_size = 1
    /\ n_gpu = 1
    /\ InitHarnessIdle
    /\ sizes = [f \in 0..3 |-> 1]
    /\ labels3 = <<0>>
    /\ pc = "EpochStart"
    /\ InitLoop
    /\ InitMetricIdle

\* lines 106-162 of one epoch
ScenarioEpoch ==
    /\ pc = "EpochStart"
    /\ ie < num_train_epochs
    /\ params' = params + step_per_epoch
    /\ scheduler' = scheduler + step_per_epoch
    /\ trained' = params'
    /\ \E a \in ScenarioAccs : eval_accuracy' = a
    /\ pc' = "CheckpointDecision"
    /\ UNCHANGED << dataVars, ie, fold, batch, train_loss, pbar, eval_loss,
                    eval_precision, eval_recall, eval_examples, result,
                    best_accuracy, checkpoint, steps_log, loss_sum,
                    eval_log, eval_loss_sum, history, saves, metricVars,
                    stepVars, logged, n_saves, harnessVars >>

NextDecision ==
    \/ ScenarioEpoch
    \/ CheckpointDecision
    \/ Finish

SpecDecision == InitDecision /\ [][NextDecision]_vars

\* ------------------------------------------------ the loaders on their own
\* The iteration of lines 109-110 and 129-130 without the model: in every
\* epoch the loaders 0..3 are iterated in turn and the batches they yield
\* are collected.  A batch is the sequence of the positions (1-based) of
\* its examples in the dataset.
Batch(f, b) ==
    [i \in 1..(BatchLast(f, b) - BatchFirst(b) + 1) |-> BatchFirst(b) + i - 1]

InitFold ==
    /\ num_train_epochs \in 1..MaxEpochs
    /\ sizes \in [0..3 -> 1..MaxN]
    /\ batch_size \in 1..MaxBatchSize
    /\ eval_batch_size = batch_size
    /\ n_gpu = 1
    /\ labels3 = [i \in 1..sizes[EvalFold] |-> 0]
    /\ pc = "Iterating"
    /\ InitLoop
    /\ InitMetricIdle
    /\ InitHarnessIdle

\* for batch in data_loader: the loader yields its next batch
NextBatch ==
    /\ pc = "Iterating"
    /\ fold <= EvalFold
    /\ cur_pass' = [cur_pass EXCEPT ![fold + 1] = Append(@, Batch(fold, batch))]
    /\ IF batch + 1 < LoaderLen(fold)
         THEN /\ batch' = batch + 1
              /\ fold' = fold
         ELSE /\ batch' = 0
              /\ fold' = fold + 1
    /\ UNCHANGED << dataVars, pc, ie, train_loss, pbar, params, scheduler,
                    evalVars, result, best_accuracy, checkpoint, steps_log,
                    loss_sum, eval_log, eval_loss_sum, trained, history,
                    saves, metricVars, stepVars, logged, n_saves, passes,
                    fwd_memo, first_result >>

\* the four loaders are exhausted: the epoch ends
EndPass ==
    /\ pc = "Iterating"
    /\ fold > EvalFold
    /\ passes' = Append(passes, cur_pass)
    /\ cur_pass' = NoPass
    /\ fold' = 0
    /\ ie' = ie + 1
    /\ pc' = IF ie + 1 < num_train_epochs THEN "Iterating" ELSE "Iterated"
    /\ UNCHANGED << dataVars, batch, train_loss, pbar, params, scheduler,
                    evalVars, result, best_accuracy, checkpoint, steps_log,
                    loss_sum, eval_log, eval_loss_sum, trained, history,
                    saves, metricVars, stepVars, logged, n_saves, fwd_memo,
                    first_result >>

NextFold ==
    \/ NextBatch
    \/ EndPass

SpecFold == InitFold /\ [][NextFold]_vars

\* --------------------------------------------- the evaluation run twice
\* One epoch is trained; its evaluation (lines 127-162) is then run a second
\* time on the unchanged parameters.  In evaluation mode (model.eval(),
\* torch.no_grad()) the model is a function of its parameters and its
\* input, so the second run receives the outputs of the first.
InitReeval ==
    /\ num_train_epochs = 1
    /\ sizes \in {z \in [0..3 -> 1..MaxB] : \A f \in 0..2 : z[f] = 1}
    /\ batch_size \in 1..MaxBatchSize
    /\ eval_batch_size = batch_size
    /\ n_gpu = 1
    /\ labels3 \in [1..sizes[EvalFold] -> 0..(NumLabels - 1)]
    /\ pc = "EpochStart"
    /\ InitLoop
    /\ InitMetricIdle
    /\ InitHarnessIdle

EvalBatchFirst ==
    /\ first_result = NoResult
    /\ \E o \in Outcomes(BatchLast(EvalFold, batch) - BatchFirst(batch) + 1) :
         /\ EvalBatchOn(o[1], o[2])
         /\ fwd_memo' = Append(fwd_memo, o)

EvalBatchAgain ==
    /\ first_result # NoResult
    /\ batch < Len(fwd_memo)
    /\ EvalBatchOn(fwd_memo[batch + 1][1], fwd_memo[batch + 1][2])
    /\ UNCHANGED fwd_memo

\* the evaluation is started again instead of deciding on the checkpoint
EvaluateAgain ==
    /\ pc = "CheckpointDecision"
    /\ first_result = NoResult
    /\ first_result' = result
    /\ pc' = "Training"
    /\ UNCHANGED << dataVars, ie, fold, batch, train_loss, pbar, params,
                    scheduler, evalVars, result, best_accuracy, checkpoint,
                    steps_log, loss_sum, eval_log, eval_loss_sum, trained,
                    history, saves, metricVars, stepVars, logged, n_saves,
                    passes, cur_pass, fwd_memo >>

NextReeval ==
    \/ StartEpoch
    \/ TrainStep
    \/ BeginEval
    \/ EvalBatchFirst
    \/ EvalBatchAgain
    \/ EvalFinish
    \/ EvaluateAgain

SpecReeval == InitReeval /\ [][NextReeval]_vars

\* ------------------------------------------- torch.save raising at line 165
\* The file left by a torch.save that raised after truncating it
Corrupt == -2

\* best_accuracy after line 165 raised: line 166 is not reached
BestUpdatedBeforeSave(acc, best) == acc
BestAfterFailedSave(acc, best)   == best

\* lines 164-165 with torch.save raising (directory missing, disk full, ...):
\* the exception is caught nowhere and ends main().  The previous file is
\* intact if the failure came before it was opened for writing, and
\* unreadable otherwise.
SaveFails ==
    /\ pc = "CheckpointDecision"
    /\ SaveDecision(eval_accuracy, best_accuracy)
    /\ checkpoint' \in {checkpoint, Corrupt}
    /\ best_accuracy' = BestAfterFailedSave(eval_accuracy, best_accuracy)
    /\ history' = Append(history, [acc |-> eval_accuracy, params |-> trained])
    /\ pc' = "Aborted"
    /\ UNCHANGED << dataVars, ie, fold, batch, train_loss, pbar, params,
                    scheduler, evalVars, result, saves, steps_log, loss_sum,
                    eval_log, eval_loss_sum, trained, metricVars, stepVars,
                    logged, n_saves, harnessVars >>

NextIOFailure ==
    \/ StartEpoch
    \/ TrainStep
    \/ BeginEval
    \/ EvalBatch
    \/ EvalFinish
    \/ CheckpointDecision
    \/ SaveFails
    \/ Finish

SpecIOFailure == Init /\ [][NextIOFailure]_vars

\* ------------------------------------------------------------- properties
Max(S) == CHOOSE x \in S : \A y \in S : y <= x

Accs(h) == [e \in 1..Len(h) |-> h[e].acc]

FMax(x, y) == IF FGeq(x, y) THEN x ELSE y

\* the maximum of 0 and the accuracies of h
RECURSIVE MaxAcc(_)
MaxAcc(h) ==
    IF h = << >> THEN Zero
    ELSE FMax(MaxAcc(SubSeq(h, 1, Len(h) - 1)), h[Len(h)].acc)

\* best_accuracy before epoch e: the accuracy of the latest earlier save, or 0
BestBefore(e) ==
    LET prev == {k \in saves : k < e}
    IN  IF prev = {} THEN Zero ELSE history[Max(prev)].acc

ScenarioRun == << <<1, 2>>, <<3, 5>>, <<11, 20>>, <<3, 5>>, <<7, 10>> >>

\* C1: the checkpoint is saved at epoch e iff that epoch's accuracy is >= the
\* best accuracy set by the earlier saves (0 before the first); the first
\* epoch always saves; the run with accuracies 0.5, 0.6, 0.55, 0.6, 0.7 saves
\* exactly at epochs 1, 2, 4 and 5.
C1_SaveIffNotBelowBest ==
    /\ \A e \in 1..Len(history) :
         (e \in saves) <=> FGeq(history[e].acc, BestBefore(e))
    /\ Len(history) >= 1 => 1 \in saves
    /\ saves \subseteq 1..Len(history)
    /\ Accs(history) = ScenarioRun => saves = {1, 2, 4, 5}

C1_Witness ==
    /\ Accs(history) = ScenarioRun
    /\ saves = {1, 2, 4, 5}
    /\ pc = "Done"

\* C2: best_accuracy never decreases, and once the decision of an epoch is
\* taken it is the maximum of 0 and the accuracies of all finished epochs.
C2_BestIsRunningMax ==
    [][ /\ FGeq(best_accuracy', best_accuracy)
        /\ (pc' \in {"EpochStart", "Done"}) => (best_accuracy' = MaxAcc(history'))
      ]_vars

C2_Witness ==
    /\ Len(history) = 2
    /\ FGt(history[1].acc, history[2].acc)
    /\ best_accuracy = history[1].acc

\* the most recent finished epoch whose accuracy is the running best
LastBestEpoch(h) == Max({e \in 1..Len(h) : h[e].acc = MaxAcc(h)})

\* C3: the checkpoint holds the parameters as they were at the end of the
\* training of the most recent epoch whose accuracy equals the running
\* best, and no step of the training or evaluation phase changes it.
C3_CheckpointIsLastBest ==
    /\ [](IF history = << >>
            THEN checkpoint = NoCheckpoint
            ELSE checkpoint = history[LastBestEpoch(history)].params)
    /\ [][(pc \in {"Training", "Evaluating"}) => (checkpoint' = checkpoint)]_vars

C3_Witness ==
    /\ Len(history) = 2
    /\ FGt(history[1].acc, history[2].acc)
    /\ checkpoint = history[1].params
    /\ params > checkpoint
    /\ history[2].params = params

\* C4: the reported train_loss is the sum of the losses of the steps of this
\* epoch divided by the number of steps executed in this epoch.
C4_TrainLossPerExecutedStep ==
    pc = "CheckpointDecision" =>
        result.train_loss = TrueDivide(loss_sum, Len(steps_log))

\* the batches of loader f in order, as <<fold, batch>>
FoldBatches(f) == [b \in 1..CeilDiv(sizes[f], batch_size) |-> <<f, b - 1>>]

ExpectedSteps == FoldBatches(0) \o FoldBatches(1) \o FoldBatches(2)

ExpectedEval == [b \in 1..CeilDiv(sizes[3], batch_size) |-> b - 1]

IsPrefix(s, t) == Len(s) <= Len(t) /\ s = SubSeq(t, 1, Len(s))

EvalBatches == [i \in 1..Len(eval_log) |-> eval_log[i].batch]

\* C5: the steps of an epoch are the batches of fold 0, then of fold 1, then
\* of fold 2, each once and in order; fold 3 is never trained on; the
\* evaluation takes every batch of fold 3 once, in order, and only after the
\* last training step of the epoch.
C5_FoldOrder ==
    /\ IsPrefix(steps_log, ExpectedSteps)
    /\ \A i \in 1..Len(steps_log) : steps_log[i][1] # 3
    /\ pbar = Len(steps_log)
    /\ IsPrefix(EvalBatches, ExpectedEval)
    /\ eval_log # << >> => steps_log = ExpectedSteps
    /\ pc \in {"Evaluating", "CheckpointDecision"} => steps_log = ExpectedSteps
    /\ pc = "CheckpointDecision" => EvalBatches = ExpectedEval

C5_Witness ==
    /\ pc = "CheckpointDecision"
    /\ Len(steps_log) = 5
    /\ steps_log[2] = <<1, 0>>
    /\ steps_log[3] = <<1, 1>>
    /\ Len(eval_log) = 1

RECURSIVE FSum(_)
FSum(s) ==
    IF s = << >> THEN Zero
    ELSE FAdd(FSum(SubSeq(s, 1, Len(s) - 1)), s[Len(s)])

EvalHits == SumSeq([i \in 1..Len(eval_log) |-> eval_log[i].hits])

\* C6: each evaluation metric of the epoch is the sum of the per-batch values
\* divided by the number of batches of the fold.
C6_PerBatchAverage ==
    pc = "CheckpointDecision" =>
      LET n == Len(eval_log) IN
      /\ n = CeilDiv(sizes[3], batch_size)
      /\ result.eval_loss = TrueDivide(eval_loss_sum, n)
      /\ result.eval_accuracy =
           FDivInt(FSum([i \in 1..n |->
                     TrueDivide(eval_log[i].hits, eval_log[i].size)]), n)
      /\ result.eval_precision =
           FDivInt(FSum([i \in 1..n |-> eval_log[i].prec]), n)
      /\ result.eval_recall =
           FDivInt(FSum([i \in 1..n |-> eval_log[i].rec]), n)

\* the last batch is shorter and the per-batch average differs from the
\* per-example average
C6_Witness ==
    /\ pc = "CheckpointDecision"
    /\ Len(eval_log) = 2
    /\ eval_log[2].size < eval_log[1].size
    /\ eval_examples = sizes[3]
    /\ result.eval_accuracy # TrueDivide(EvalHits, eval_examples)
    /\ result.eval_accuracy = <<3, 4>>

\* C8: a batch without predicted positives (without true positives) gives an
\* undefined precision (recall), and the epoch's eval_precision
\* (eval_recall) is then undefined as well, never a finite number.
C8_DegenerateIsUndefined ==
    /\ \A i \in 1..Len(eval_log) :
         /\ eval_log[i].npred = 0 => ~IsFinite(eval_log[i].prec)
         /\ eval_log[i].ntrue = 0 => ~IsFinite(eval_log[i].rec)
    /\ pc = "CheckpointDecision" =>
         /\ (\E i \in 1..Len(eval_log) : eval_log[i].npred = 0)
               => ~IsFinite(result.eval_precision)
         /\ (\E i \in 1..Len(eval_log) : eval_log[i].ntrue = 0)
               => ~IsFinite(result.eval_recall)

C8_Witness ==
    /\ pc = "CheckpointDecision"
    /\ Len(eval_log) = 2
    /\ eval_log[1].npred = 0
    /\ eval_log[2].npred > 0
    /\ IsFinite(eval_log[2].prec)
    /\ result.eval_precision = NaN
    /\ IsFinite(result.eval_recall)

\* ----------------------------------------------- properties of accuracy()
mP  == [i \in 1..Len(m_logits) |-> PredClass(m_logits[i])]
mIx == 1..Len(m_logits)
mTP == Cardinality({i \in mIx : mP[i] = 1 /\ m_labels[i] = 1})
mPP == Cardinality({i \in mIx : mP[i] = 1})
mAP == Cardinality({i \in mIx : m_labels[i] = 1})
mBinary == \A i \in mIx : mP[i] \in {0, 1} /\ m_labels[i] \in {0, 1}

C9_PerfectPrecisionRecall ==
    pc = "Returned" =>
        /\ (\A i \in mIx : mP[i] = 1 => m_labels[i] = 1) => m_metrics[2] = One
        /\ (\A i \in mIx : m_labels[i] = 1 => mP[i] = 1) => m_metrics[3] = One

\* C9 (amended): for predictions and labels that are all 0 or 1, precision
\* is 1.0 when there is a predicted positive and every predicted positive is
\* a true positive; recall is 1.0 when there is a true positive and every
\* true positive is predicted positive.
C9_PerfectPrecisionRecallNonEmpty ==
    (pc = "Returned" /\ mBinary) =>
        /\ (mPP > 0 /\ \A i \in mIx : mP[i] = 1 => m_labels[i] = 1)
              => m_metrics[2] = One
        /\ (mAP > 0 /\ \A i \in mIx : m_labels[i] = 1 => mP[i] = 1)
              => m_metrics[3] = One

C9_Witness ==
    /\ pc = "Returned"
    /\ mBinary
    /\ mPP = 1
    /\ mAP = 2
    /\ \A i \in mIx : mP[i] = 1 => m_labels[i] = 1
    /\ m_metrics[2] = One
    /\ m_metrics[3] = <<1, 2>>

\* C10: accuracy is the fraction of positions whose predicted class equals
\* the label; it lies in [0,1] and is 1.0 when they agree everywhere.
C10_AccuracyIsFraction ==
    pc = "Returned" =>
        /\ m_metrics[1] =
             TrueDivide(Cardinality({i \in mIx : mP[i] = m_labels[i]}),
                        Len(m_logits))
        /\ FGeq(m_metrics[1], Zero)
        /\ FGeq(One, m_metrics[1])
        /\ mP = m_labels => m_metrics[1] = One

C10_Witness ==
    /\ pc = "Returned"
    /\ mP = <<2, 1>>
    /\ m_labels = <<2, 0>>
    /\ m_metrics[1] = <<1, 2>>

RECURSIVE Concat(_)
Concat(ss) == IF ss = << >> THEN << >> ELSE Head(ss) \o Concat(Tail(ss))

\* the batches bs are a dataset of n examples cut into batches of k
IsBatching(bs, n, k) ==
    LET nb == Len(bs) IN
    /\ nb * k >= n
    /\ (nb - 1) * k < n
    /\ \A b \in 1..(nb - 1) : Len(bs[b]) = k
    /\ Len(bs[nb]) = (IF n % k = 0 THEN k ELSE n % k)
    /\ Concat(bs) = [i \in 1..n |-> i]

\* C11: a loader over N examples with batch size K yields ceil(N/K) batches,
\* all of size K but the last, which has N mod K examples (K when that is
\* 0); the batches in order are the dataset in order; every epoch yields
\* the same batches.
C11_FoldBatching ==
    /\ \A p \in 1..Len(passes) : \A f \in 0..3 :
         IsBatching(passes[p][f + 1], sizes[f], batch_size)
    /\ \A p, q \in 1..Len(passes) : passes[p] = passes[q]

C11_Witness ==
    /\ pc = "Iterated"
    /\ Len(passes) = 2
    /\ sizes[0] = 3
    /\ batch_size = 2
    /\ passes[2][1] = << <<1, 2>>, <<3>> >>
    /\ sizes[EvalFold] = 2
    /\ passes[2][4] = << <<1, 2>> >>

\* C12: a second evaluation of the same fold on unchanged parameters gives
\* the same eval_loss, eval_accuracy, eval_precision and eval_recall as the
\* first: nothing of the first evaluation is carried into the second.
C12_EvaluationIdempotent ==
    (pc = "CheckpointDecision" /\ first_result # NoResult) =>
        /\ params = trained
        /\ result.eval_loss = first_result.eval_loss
        /\ result.eval_accuracy = first_result.eval_accuracy
        /\ result.eval_precision = first_result.eval_precision
        /\ result.eval_recall = first_result.eval_recall

C12_Witness ==
    /\ pc = "CheckpointDecision"
    /\ first_result # NoResult
    /\ Len(fwd_memo) = 2
    /\ Len(eval_log) = 4
    /\ result.eval_accuracy = <<1, 2>>
    /\ result.eval_recall = <<1, 2>>
    /\ result = first_result

\* C13: ModelState, the optimizer state (advanced together with ModelState
\* by optimizer.step()) and the scheduler counter change only in an
\* optimization step of the Training phase; they are unchanged across
\* Evaluating and CheckpointDecision, and a checkpoint saves the state left
\* by the epoch's last training step.
C13_OnlyTrainingStepsWrite ==
    [][ /\ (params' # params \/ scheduler' # scheduler \/ applied' # applied
              \/ grad' # grad)
            => (/\ pc = "Training"
                /\ fold < TrainFolds
                /\ pc' = "Training"
                /\ Len(steps_log') = Len(steps_log) + 1
                /\ params' = params + 1
                /\ scheduler' = scheduler + 1)
        /\ (pc \in {"Evaluating", "CheckpointDecision"})
            => (params = trained)
        /\ (saves' # saves \/ checkpoint' # checkpoint)
            => (/\ pc = "CheckpointDecision"
                /\ checkpoint' = trained
                /\ checkpoint' = params')
      ]_vars

C13_Witness ==
    /\ pc = "EpochStart"
    /\ ie = 2
    /\ saves = {1, 2}
    /\ checkpoint = 6
    /\ params = 6
    /\ scheduler = 6
    /\ trained = 6
    /\ eval_log # << >>

\* C14: every optimization step performs forward, loss reduction, backward,
\* clipping to 1.0, optimizer step, scheduler step and gradient reset, in
\* this order and once each; the optimizer never applies a gradient of norm
\* above 1.0, every forward pass of a step finds zero gradients, and no
\* gradient is left between steps.
C14_StepOrder ==
    /\ steps_log # << >> =>
         last_ops = << "forward", "reduce", "backward", "clip", "optimizer",
                       "scheduler", "zero_grad" >>
    /\ \A a \in applied : 0 <= a /\ a <= 1
    /\ fwd_grads \subseteq {0}
    /\ grad = 0

C14_Witness ==
    /\ pc = "Training"
    /\ ie = 1
    /\ fold = 1
    /\ n_gpu = 2
    /\ params = 4
    /\ applied = {1}
    /\ fwd_grads = {0}
    /\ Len(last_ops) = 7

\* C15: for any sizes of the three training folds the number of scheduler
\* steps taken never exceeds the precomputed total step count and equals it
\* when the last epoch has ended.
C15_SchedulerSpansExecutedSteps ==
    /\ pc \in {"EpochStart", "Training", "Evaluating", "CheckpointDecision",
               "Done"} => scheduler <= total_steps
    /\ pc = "Done" => scheduler = total_steps

\* C16: a checkpoint write that fails aborts the run: best_accuracy is not
\* updated to that epoch's accuracy, nothing is trained or evaluated
\* afterwards, and whenever the checkpoint file holds a model, best_accuracy
\* does not exceed the accuracy that model was evaluated at.
C16_FailedSaveAborts ==
    [][ /\ (pc' = "Aborted")
            => (/\ best_accuracy' = best_accuracy
                /\ ie' = ie
                /\ params' = params
                /\ eval_log' = eval_log)
        /\ (pc = "Aborted") => FALSE
        /\ (checkpoint' \notin {NoCheckpoint, Corrupt})
            => (\E h \in 1..Len(history') :
                   /\ history'[h].params = checkpoint'
                   /\ FGeq(history'[h].acc, best_accuracy'))
      ]_vars

C16_Witness ==
    /\ pc = "Aborted"
    /\ ie = 1
    /\ checkpoint = 3
    /\ best_accuracy = Zero
    /\ eval_accuracy = One
    /\ params = 6
    /\ Len(history) = 2

\* C17: without failures the run terminates after exactly num_train_epochs
\* epochs; every epoch goes through Training, Evaluating and
\* CheckpointDecision once each and in this order, logs one result and saves
\* at most once.
C17_EpochsThenTermination ==
    /\ <>(pc = "Done")
    /\ [][ /\ (pc' # pc) =>
                << pc, pc' >> \in { << "EpochStart", "Training" >>,
                                   << "Training", "Evaluating" >>,
                                   << "Evaluating", "CheckpointDecision" >>,
                                   << "CheckpointDecision", "EpochStart" >>,
                                   << "EpochStart", "Done" >> }
           /\ (ie' # ie) => (pc = "CheckpointDecision" /\ ie' = ie + 1)
           /\ (pc = "CheckpointDecision") => (pc' # pc /\ ie' = ie + 1)
           /\ (logged' # logged) =>
                (pc = "Evaluating" /\ pc' # pc /\ logged' = logged + 1)
           /\ (pc = "Evaluating" /\ pc' # pc) => (logged' = ie + 1)
           /\ (n_saves' # n_saves) =>
                (pc = "CheckpointDecision" /\ n_saves' = n_saves + 1)
           /\ (pc' = "Done") =>
                (/\ ie' = num_train_epochs
                 /\ logged' = num_train_epochs
                 /\ Len(history') = num_train_epochs
                 /\ n_saves' <= num_train_epochs)
           /\ (pc = "Done") => FALSE
         ]_vars

C17_Witness ==
    /\ pc = "Done"
    /\ num_train_epochs = 2
    /\ ie = 2
    /\ logged = 2
    /\ n_saves = 1
    /\ saves = {1}
    /\ params = 6

\* C18: the evaluation fold is batched with eval_batch_size: an evaluation
\* of N examples processes ceil(N / eval_batch_size) batches and divides its
\* accumulators by that number, also when eval_batch_size differs from
\* train_batch_size.
C18_EvalUsesEvalBatchSize ==
    pc = "CheckpointDecision" =>
        /\ Len(eval_log) = CeilDiv(sizes[EvalFold], eval_batch_size)
        /\ len_eval_loader = CeilDiv(sizes[EvalFold], eval_batch_size)

TypeOK ==
    /\ pc \in {"EpochStart", "Training", "Evaluating", "CheckpointDecision",
               "Done", "Call", "Returned", "Iterating", "Iterated",
               "Aborted"}
    /\ ie \in 0..ScenarioEpochs + 1
    /\ params \in Nat

====
